---------------------------- MODULE Spec2Model ----------------------------
(***************************************************************************)
(* Model of the page-range parser of the PDF service (parsePageRanges).    *)
(* A call is run as a small state machine: the early return on a blank     *)
(* expression, the split on commas, one loop iteration per part, and the   *)
(* final sort of the collected Set.                                        *)
(*                                                                         *)
(* Strings are sequences of one-character strings.  A JavaScript number    *)
(* is a record [nan, n]: NaN keeps its own comparison rules (every         *)
(* comparison with NaN is false).                                          *)
(***************************************************************************)
EXTENDS Integers, Sequences, FiniteSets

VARIABLES rangeStr, maxPage, pc, parts, idx, resultPages, ret, error

\* A call of one of the PDF service's operations (merge, extract, split,
\* rotate).
VARIABLES svcOp, svcFiles, svcStr, svcMode, svcAngle, svcPc, svcDoc, svcSel,
          svcSegs, svcIdx, svcOut, svcErr

\* The placement of one image on its page in convertImagesToPdf.
VARIABLES imageDims, optPageSize, optOrientation, fitPc, pageWidth,
          pageHeight, availableWidth, availableHeight, drawWidth, drawHeight,
          drawX, drawY

\* A click on "Convert Images to PDF" (handleImagesToPdf) and the call of
\* convertImagesToPdf it awaits.
VARIABLES imageFiles, viaHandler, convPc, convIdx, pdfImage, convDoc,
          convOut, convErr, hPc, isProcessing, uiError, processedFilesInfo

parserVars == <<rangeStr, maxPage, pc, parts, idx, resultPages, ret, error>>

pdfVars == <<svcOp, svcFiles, svcStr, svcMode, svcAngle, svcPc, svcDoc,
             svcSel, svcSegs, svcIdx, svcOut, svcErr>>

fitVars == <<imageDims, optPageSize, optOrientation, fitPc, pageWidth,
             pageHeight, availableWidth, availableHeight, drawWidth,
             drawHeight, drawX, drawY>>

convVars == <<imageFiles, viaHandler, convPc, convIdx, pdfImage, convDoc,
              convOut, convErr, hPc, isProcessing, uiError,
              processedFilesInfo>>

vars == <<parserVars, pdfVars, fitVars, convVars>>

(***************************************************************************)
(* Bounds of the explored inputs.                                          *)
(***************************************************************************)
MaxLen == 5
MaxPages == 2

Digits == {"0", "1", "2"}
Alphabet == Digits \cup {"-", ",", " ", "x"}

Strings == UNION {[1..n -> Alphabet] : n \in 0..MaxLen}

(***************************************************************************)
(* JavaScript numbers.                                                     *)
(***************************************************************************)
NaN == [nan |-> TRUE, n |-> 0]
Num(k) == [nan |-> FALSE, n |-> k]
isNaN(v) == v.nan
Lt(a, b) == ~a.nan /\ ~b.nan /\ a.n < b.n
Gt(a, b) == ~a.nan /\ ~b.nan /\ a.n > b.n

MathMin_offByOne(a, b) ==
  IF a.nan \/ b.nan THEN NaN ELSE IF a.n < b.n + 1 THEN a ELSE Num(b.n + 1)

MathMin(a, b) == IF a.nan \/ b.nan THEN NaN ELSE IF a.n < b.n THEN a ELSE b

(***************************************************************************)
(* String.prototype.trim, split and includes.                              *)
(***************************************************************************)
IsWhiteSpace(c) == c = " "

RECURSIVE TrimStart(_)
TrimStart(s) ==
  IF s = <<>> \/ ~IsWhiteSpace(Head(s)) THEN s ELSE TrimStart(Tail(s))

RECURSIVE TrimEnd(_)
TrimEnd(s) ==
  IF s = <<>> \/ ~IsWhiteSpace(s[Len(s)]) THEN s
  ELSE TrimEnd(SubSeq(s, 1, Len(s) - 1))

Trim(s) == TrimEnd(TrimStart(s))

RECURSIVE Split(_, _)
Split(s, sep) ==
  IF s = <<>> THEN << <<>> >>
  ELSE LET rest == Split(Tail(s), sep)
       IN  IF Head(s) = sep THEN << <<>> >> \o rest
           ELSE << <<Head(s)>> \o Head(rest) >> \o Tail(rest)

Includes(s, c) == \E i \in 1..Len(s) : s[i] = c

(***************************************************************************)
(* parseInt(s, 10): leading white space is skipped, the longest prefix of  *)
(* decimal digits is converted and whatever follows it is ignored; NaN     *)
(* when there is no digit.  (A sign cannot occur: a token never holds a    *)
(* dash, and "+" is not in the alphabet.)                                  *)
(***************************************************************************)
DigitValue(c) == CASE c = "0" -> 0 [] c = "1" -> 1 [] c = "2" -> 2
                   [] c = "3" -> 3 [] c = "4" -> 4 [] c = "5" -> 5
                   [] c = "6" -> 6 [] c = "7" -> 7 [] c = "8" -> 8
                   [] c = "9" -> 9

IsDigit(c) == c \in {"0", "1", "2", "3", "4", "5", "6", "7", "8", "9"}

RECURSIVE LeadingDigits(_)
LeadingDigits(s) ==
  IF s = <<>> \/ ~IsDigit(Head(s)) THEN <<>>
  ELSE <<Head(s)>> \o LeadingDigits(Tail(s))

RECURSIVE Decimal(_)
Decimal(ds) ==
  IF ds = <<>> THEN 0
  ELSE 10 * Decimal(SubSeq(ds, 1, Len(ds) - 1)) + DigitValue(ds[Len(ds)])

parseInt(s) ==
  LET ds == LeadingDigits(TrimStart(s))
  IN  IF ds = <<>> THEN NaN ELSE Num(Decimal(ds))

(***************************************************************************)
(* The Set of result pages: insertion ordered, no element twice.           *)
(***************************************************************************)
ToSet(seq) == {seq[i] : i \in 1..Len(seq)}

SetAdd(seq, x) == IF x \in ToSet(seq) THEN seq ELSE Append(seq, x)

(***************************************************************************)
(* for (let i = start; i <= end; i++) resultPages.add(i - 1)               *)
(***************************************************************************)
RECURSIVE RangeLoop_exclusive(_, _, _)
RangeLoop_exclusive(pages, i, end) ==
  IF i < end THEN RangeLoop_exclusive(SetAdd(pages, i - 1), i + 1, end)
  ELSE pages

RECURSIVE RangeLoop(_, _, _)
RangeLoop(pages, i, end) ==
  IF i <= end THEN RangeLoop(SetAdd(pages, i - 1), i + 1, end)
  ELSE pages

(***************************************************************************)
(* Array.from(resultPages).sort((a, b) => a - b)                           *)
(***************************************************************************)
RECURSIVE Insert(_, _)
Insert(x, sorted) ==
  IF sorted = <<>> THEN <<x>>
  ELSE IF x - Head(sorted) <= 0 THEN <<x>> \o sorted
  ELSE <<Head(sorted)>> \o Insert(x, Tail(sorted))

SortAsc_unsorted(seq) == seq

RECURSIVE SortAsc(_)
SortAsc(seq) ==
  IF seq = <<>> THEN <<>> ELSE Insert(Head(seq), SortAsc(Tail(seq)))

(***************************************************************************)
(* The two validity tests of the loop body.                                *)
(***************************************************************************)
RangeRejected_strictEnd(start, end, max) ==
  \/ isNaN(start) \/ isNaN(end)
  \/ Lt(start, Num(1)) \/ Lt(end, start) \/ Gt(start, Num(max))
  \/ Gt(end, Num(max))

RangeRejected(start, end, max) ==
  \/ isNaN(start) \/ isNaN(end)
  \/ Lt(start, Num(1)) \/ Lt(end, start) \/ Gt(start, Num(max))

PageRejected_noUpper(pageNum, max) ==
  isNaN(pageNum) \/ Lt(pageNum, Num(1))

PageRejected(pageNum, max) ==
  isNaN(pageNum) \/ Lt(pageNum, Num(1)) \/ Gt(pageNum, Num(max))

IsBlank_untrimmed(s) == s = <<>>

IsBlank(s) == Trim(s) = <<>>

(***************************************************************************)
(* A call parsePageRanges(rangeStr, maxPage).                              *)
(***************************************************************************)
\* No call of the parser, of a service operation, of the image placement is
\* under way.
ParserIdle ==
  /\ rangeStr = <<>>
  /\ maxPage = 0
  /\ pc = "idle"
  /\ parts = <<>>
  /\ idx = 1
  /\ resultPages = <<>>
  /\ ret = <<>>
  /\ error = "none"

PdfIdle ==
  /\ svcOp = "none"
  /\ svcFiles = <<>>
  /\ svcStr = <<>>
  /\ svcMode = "all"
  /\ svcAngle = 90
  /\ svcPc = "idle"
  /\ svcDoc = <<>>
  /\ svcSel = <<>>
  /\ svcSegs = <<>>
  /\ svcIdx = 1
  /\ svcOut = <<>>
  /\ svcErr = "none"

FitIdle ==
  /\ imageDims = <<1, 1>>
  /\ optPageSize = "none"
  /\ optOrientation = "none"
  /\ fitPc = "idle"
  /\ pageWidth = 0
  /\ pageHeight = 0
  /\ availableWidth = 0
  /\ availableHeight = 0
  /\ drawWidth = 0
  /\ drawHeight = 0
  /\ drawX = 0
  /\ drawY = 0

ConvIdle ==
  /\ imageFiles = <<>>
  /\ viaHandler = FALSE
  /\ convPc = "idle"
  /\ convIdx = 1
  /\ pdfImage = "unset"
  /\ convDoc = <<>>
  /\ convOut = <<>>
  /\ convErr = "none"
  /\ hPc = "idle"
  /\ isProcessing = FALSE
  /\ uiError = "none"
  /\ processedFilesInfo = <<>>

Init ==
  /\ PdfIdle
  /\ FitIdle
  /\ ConvIdle
  /\ rangeStr \in Strings
  /\ maxPage \in 0..MaxPages
  /\ pc = "entry"
  /\ parts = <<>>
  /\ idx = 1
  /\ resultPages = <<>>
  /\ ret = <<>>
  /\ error = "none"

\* if (!rangeStr.trim()) return [];
ReturnEmpty ==
  /\ pc = "entry"
  /\ IsBlank(rangeStr)
  /\ pc' = "returned"
  /\ ret' = <<>>
  /\ UNCHANGED <<rangeStr, maxPage, parts, idx, resultPages, error>>
  /\ UNCHANGED <<pdfVars, fitVars, convVars>>

\* const parts = rangeStr.split(',');
SplitParts ==
  /\ pc = "entry"
  /\ ~IsBlank(rangeStr)
  /\ parts' = Split(rangeStr, ",")
  /\ idx' = 1
  /\ pc' = "loop"
  /\ UNCHANGED <<rangeStr, maxPage, resultPages, ret, error>>
  /\ UNCHANGED <<pdfVars, fitVars, convVars>>

\* One iteration of the loop on a part that holds a dash.
RangePart ==
  /\ pc = "loop"
  /\ idx <= Len(parts)
  /\ LET trimmedPart == Trim(parts[idx])
     IN  /\ Includes(trimmedPart, "-")
         /\ LET tokens == Split(trimmedPart, "-")
                start == parseInt(tokens[1])
                end == parseInt(tokens[2])
            IN  IF RangeRejected(start, end, maxPage)
                THEN /\ pc' = "thrown"
                     /\ error' = "InvalidRange"
                     /\ UNCHANGED <<idx, resultPages>>
                ELSE /\ resultPages' =
                          RangeLoop(resultPages, start.n,
                                    MathMin(end, Num(maxPage)).n)
                     /\ idx' = idx + 1
                     /\ UNCHANGED <<pc, error>>
  /\ UNCHANGED <<rangeStr, maxPage, parts, ret>>
  /\ UNCHANGED <<pdfVars, fitVars, convVars>>

\* One iteration of the loop on a part without a dash.
SinglePart ==
  /\ pc = "loop"
  /\ idx <= Len(parts)
  /\ LET trimmedPart == Trim(parts[idx])
         pageNum == parseInt(trimmedPart)
     IN  /\ ~Includes(trimmedPart, "-")
         /\ IF PageRejected(pageNum, maxPage)
            THEN /\ pc' = "thrown"
                 /\ error' = "InvalidPageNumber"
                 /\ UNCHANGED <<idx, resultPages>>
            ELSE /\ resultPages' = SetAdd(resultPages, pageNum.n - 1)
                 /\ idx' = idx + 1
                 /\ UNCHANGED <<pc, error>>
  /\ UNCHANGED <<rangeStr, maxPage, parts, ret>>
  /\ UNCHANGED <<pdfVars, fitVars, convVars>>

\* return Array.from(resultPages).sort((a, b) => a - b);
ReturnSorted ==
  /\ pc = "loop"
  /\ idx > Len(parts)
  /\ ret' = SortAsc(resultPages)
  /\ pc' = "returned"
  /\ UNCHANGED <<rangeStr, maxPage, parts, idx, resultPages, error>>
  /\ UNCHANGED <<pdfVars, fitVars, convVars>>

Next ==
  \/ ReturnEmpty
  \/ SplitParts
  \/ RangePart
  \/ SinglePart
  \/ ReturnSorted

Spec == Init /\ [][Next]_vars

TypeOK ==
  /\ pc \in {"entry", "loop", "returned", "thrown"}
  /\ error \in {"none", "InvalidRange", "InvalidPageNumber"}
  /\ idx \in 1..(Len(parts) + 1)
  /\ (error # "none") <=> (pc = "thrown")


(***************************************************************************)
(* Reading an expression the way its description does: a segment is a      *)
(* single page number or a start-end pair, and a page token is an integer  *)
(* only when all of it (white space around it aside) is decimal digits.    *)
(***************************************************************************)
IsInteger(t) == t # <<>> /\ \A i \in 1..Len(t) : IsDigit(t[i])

HasDash(seg) == \E i \in 1..Len(seg) : seg[i] = "-"

FirstDash(seg) == CHOOSE i \in 1..Len(seg) :
                    seg[i] = "-" /\ \A j \in 1..(i - 1) : seg[j] # "-"

StartText(seg) == Trim(SubSeq(seg, 1, FirstDash(seg) - 1))
EndText(seg) == Trim(SubSeq(seg, FirstDash(seg) + 1, Len(seg)))

IsEmptySegment(seg) == \A i \in 1..Len(seg) : seg[i] = " "

WellFormedRange(seg) ==
  HasDash(seg) /\ IsInteger(StartText(seg)) /\ IsInteger(EndText(seg))

WellFormedPage(seg) == ~HasDash(seg) /\ IsInteger(Trim(seg))

StartOf(seg) == Decimal(StartText(seg))
EndOf(seg) == Decimal(EndText(seg))
PageOf(seg) == Decimal(Trim(seg))

Min(a, b) == IF a < b THEN a ELSE b

IsAscending(seq) == \A i \in 1..(Len(seq) - 1) : seq[i] < seq[i + 1]

\* The segments the loop has gone past without throwing.
Passed == 1..(idx - 1)

\* The loop threw on segment k.
ThrownAt(k) == pc = "thrown" /\ idx = k

---------------------------------------------------------------------------
\* C1: whenever parsePageRanges returns, the returned sequence is strictly
\* ascending (so no index occurs twice), whatever the order and overlap of
\* the segments.
C1_StrictlyAscending == pc = "returned" => IsAscending(ret)

\* A call returned at least two indices that the segments named in another
\* order than the ascending one, one of them more than once.
C1_Witness ==
  /\ pc = "returned"
  /\ Len(ret) >= 2
  /\ ret # resultPages
  /\ Len(parts) > Len(ret)

\* C2: every index i returned satisfies 0 <= i < totalPages, also for ranges
\* whose end exceeds totalPages.
C2_IndicesInDocument ==
  pc = "returned" => \A i \in 1..Len(ret) : 0 <= ret[i] /\ ret[i] < maxPage

\* A call returned indices for an expression holding a range whose end is
\* beyond the last page.
C2_Witness ==
  /\ pc = "returned"
  /\ ret # <<>>
  /\ \E k \in 1..Len(parts) :
       WellFormedRange(parts[k]) /\ EndOf(parts[k]) > maxPage

\* C3: when parsePageRanges returns, the set of returned indices is exactly
\* the union over the segments of { p-1 : start <= p <= min(end, totalPages) }
\* for a dash segment and { value-1 } for a single page, start, end and value
\* being the numbers the segment's tokens were read as.
SegmentPages(seg) ==
  LET t == Trim(seg)
  IN  IF Includes(t, "-")
      THEN LET tokens == Split(t, "-")
           IN  {p - 1 : p \in parseInt(tokens[1]).n ..
                                Min(parseInt(tokens[2]).n, maxPage)}
      ELSE {parseInt(t).n - 1}

C3_ExactlyTheNamedPages ==
  pc = "returned" =>
    ToSet(ret) = UNION {SegmentPages(parts[k]) : k \in 1..Len(parts)}

\* "1,1,2" returned [0,1].
C3_Witness ==
  /\ rangeStr = <<"1", ",", "1", ",", "2">>
  /\ pc = "returned"
  /\ ret = <<0, 1>>

\* C4: a dash segment start-end with 1 <= start <= totalPages and
\* end > totalPages is accepted: the iteration on it does not throw and adds
\* exactly the pages start..totalPages (as indices start-1..totalPages-1).
OverflowingRange(seg) ==
  /\ WellFormedRange(seg)
  /\ 1 <= StartOf(seg) /\ StartOf(seg) <= maxPage
  /\ EndOf(seg) > maxPage

C4_OverflowingEndClamped ==
  [][ (pc = "loop" /\ idx <= Len(parts) /\ OverflowingRange(parts[idx])) =>
        /\ pc' = "loop"
        /\ idx' = idx + 1
        /\ ToSet(resultPages') =
             ToSet(resultPages) \cup
               {p - 1 : p \in StartOf(parts[idx])..maxPage} ]_vars

\* "1-12" against 2 pages returned [0,1].
C4_Witness ==
  /\ rangeStr = <<"1", "-", "1", "2">>
  /\ maxPage = 2
  /\ pc = "returned"
  /\ ret = <<0, 1>>

\* C5: a segment without a dash whose value is outside [1, totalPages] makes
\* the call fail: the loop never gets past it, the call never returns, and
\* the error thrown on it is InvalidPageNumber.
PageOutside(seg) ==
  WellFormedPage(seg) /\ (PageOf(seg) < 1 \/ PageOf(seg) > maxPage)

C5_PageOutsideRejected ==
  \A k \in 1..Len(parts) :
    PageOutside(parts[k]) =>
      /\ pc # "returned"
      /\ k \notin Passed
      /\ (ThrownAt(k) => error = "InvalidPageNumber")

\* The call failed with InvalidPageNumber on a page number just beyond the
\* last page of a non-empty document, after an accepted segment.
C5_Witness ==
  /\ pc = "thrown"
  /\ error = "InvalidPageNumber"
  /\ idx > 1
  /\ maxPage >= 1
  /\ WellFormedPage(parts[idx])
  /\ PageOf(parts[idx]) = maxPage + 1

\* C6: a dash segment fails with InvalidRange exactly when a token is not an
\* integer, start < 1, end < start or start > totalPages, and is accepted in
\* every other case.
RangeInvalid(seg) ==
  \/ ~WellFormedRange(seg)
  \/ StartOf(seg) < 1
  \/ EndOf(seg) < StartOf(seg)
  \/ StartOf(seg) > maxPage

C6_RangeRejectedExactlyWhen ==
  \A k \in 1..Len(parts) :
    HasDash(parts[k]) =>
      /\ (k \in Passed => ~RangeInvalid(parts[k]))
      /\ (ThrownAt(k) => RangeInvalid(parts[k]) /\ error = "InvalidRange")

\* C7: on an empty or whitespace-only expression the call returns the empty
\* sequence and raises no error, for every totalPages >= 0.
C7_BlankGivesEmpty ==
  (IsEmptySegment(rangeStr) /\ pc # "entry") =>
    pc = "returned" /\ ret = <<>> /\ error = "none"

\* A whitespace-only expression returned [] for a document of no pages.
C7_Witness ==
  /\ rangeStr # <<>>
  /\ IsEmptySegment(rangeStr)
  /\ maxPage = 0
  /\ pc = "returned"
  /\ ret = <<>>

\* C8: segments that are empty after trimming are discarded: the call does
\* not fail because of an empty segment.
C8_EmptySegmentsDiscarded ==
  \A k \in 1..Len(parts) : IsEmptySegment(parts[k]) => ~ThrownAt(k)

\* C9: every segment whose page token is not in its entirety a base-10
\* integer is rejected: the loop never gets past it, and the error thrown on
\* it is InvalidRange for a dash segment and InvalidPageNumber otherwise.
Malformed(seg) ==
  ~IsEmptySegment(seg) /\ ~WellFormedRange(seg) /\ ~WellFormedPage(seg)

C9_NonIntegerTokenRejected ==
  \A k \in 1..Len(parts) :
    Malformed(parts[k]) =>
      /\ k \notin Passed
      /\ (ThrownAt(k) =>
            error = IF HasDash(parts[k]) THEN "InvalidRange"
                    ELSE "InvalidPageNumber")

\* C10: if any segment of the expression is invalid, the call fails with the
\* error kind of the leftmost invalid segment and delivers no indices.
Segments == Split(rangeStr, ",")

SegmentInvalid(seg) ==
  /\ ~IsEmptySegment(seg)
  /\ IF HasDash(seg) THEN RangeInvalid(seg)
     ELSE ~WellFormedPage(seg) \/ PageOutside(seg)

InvalidSegments == {k \in 1..Len(Segments) : SegmentInvalid(Segments[k])}

LeftmostInvalid == CHOOSE k \in InvalidSegments :
                     \A j \in InvalidSegments : k <= j

C10_FailsOnLeftmostInvalid ==
  (pc \in {"returned", "thrown"} /\ InvalidSegments # {}) =>
    /\ pc = "thrown"
    /\ ret = <<>>
    /\ error = IF HasDash(Segments[LeftmostInvalid]) THEN "InvalidRange"
               ELSE "InvalidPageNumber"


---------------------------------------------------------------------------
(***************************************************************************)
(* The PDF service: mergePdfs, extractPagesFromPdf, splitPdf and           *)
(* rotatePdfPages.  A document is the sequence of its pages; a page        *)
(* records the file and page number it comes from and its rotation.  The   *)
(* byte serialisation done by the PDF library's save() is not modelled:    *)
(* an output is the document object save() is called on.                   *)
(***************************************************************************)
MaxExprLen == 3
MaxFiles == 2

Rotations == {0, 90, 180, 270}
Angles == {90, 180, 270}

ExprStrings == UNION {[1..n -> Alphabet] : n \in 0..MaxExprLen}

\* The documents of file f: unrotated pages, and pages with any rotations.
PlainDoc(f, n) == [p \in 1..n |-> [file |-> f, num |-> p, rot |-> 0]]
PlainDocs(f) == {PlainDoc(f, n) : n \in 0..MaxPages}
RotatedDocs(f) ==
  UNION {{[p \in 1..n |-> [file |-> f, num |-> p, rot |-> rots[p]]] :
            rots \in [1..n -> Rotations]} : n \in 0..MaxPages}

\* A call parsePageRanges(str, max) as a whole: the same early return, tests
\* and loop as the step machine above, run to its return or its throw.
RECURSIVE ParseParts(_, _, _, _)
ParseParts(ps, i, pages, max) ==
  IF i > Len(ps) THEN [error |-> "none", pages |-> SortAsc(pages)]
  ELSE LET trimmedPart == Trim(ps[i])
       IN  IF Includes(trimmedPart, "-")
           THEN LET tokens == Split(trimmedPart, "-")
                    start == parseInt(tokens[1])
                    end == parseInt(tokens[2])
                IN  IF RangeRejected(start, end, max)
                    THEN [error |-> "InvalidRange", pages |-> <<>>]
                    ELSE ParseParts(ps, i + 1,
                                    RangeLoop(pages, start.n,
                                              MathMin(end, Num(max)).n),
                                    max)
           ELSE LET pageNum == parseInt(trimmedPart)
                IN  IF PageRejected(pageNum, max)
                    THEN [error |-> "InvalidPageNumber", pages |-> <<>>]
                    ELSE ParseParts(ps, i + 1,
                                    SetAdd(pages, pageNum.n - 1), max)

parsePageRanges(str, max) ==
  IF IsBlank(str) THEN [error |-> "none", pages |-> <<>>]
  ELSE ParseParts(Split(str, ","), 1, <<>>, max)

\* pdfDoc.getPageCount(), pdfDoc.getPageIndices(), copyPages + addPage
getPageCount(doc) == Len(doc)
getPageIndices(doc) == [k \in 1..Len(doc) |-> k - 1]
CopyPages(doc, indices) == [k \in 1..Len(indices) |-> doc[indices[k] + 1]]

\* copiedPages.forEach(page => doc.addPage(page))
AddPages_front(doc, copiedPages) == copiedPages \o doc

AddPages(doc, copiedPages) == doc \o copiedPages

\* pagesToExtractIndices.length === 0, pagesToRotateIndices.length === 0
NoPagesSelected_unchecked(indices) == FALSE

NoPagesSelected(indices) == Len(indices) = 0

\* rangesStr.split(',').map(s => s.trim()).filter(s => s)
RECURSIVE FilterNonEmpty(_)
FilterNonEmpty(ss) ==
  IF ss = <<>> THEN <<>>
  ELSE IF Head(ss) = <<>> THEN FilterNonEmpty(Tail(ss))
  ELSE <<Head(ss)>> \o FilterNonEmpty(Tail(ss))

RangeSegments(str) ==
  LET ss == Split(str, ",")
  IN  FilterNonEmpty([k \in 1..Len(ss) |-> Trim(ss[k])])

\* segment.replace(/[^0-9a-zA-Z-]/g, '_')
Sanitize(seg) ==
  [k \in 1..Len(seg) |->
     IF IsDigit(seg[k]) \/ seg[k] = "x" \/ seg[k] = "-" THEN seg[k] ELSE "_"]

\* results.length === 0
NoResults_unchecked(results) == FALSE

NoResults(results) == Len(results) = 0

\* (currentRotation + options.angle) % 360
NewRotation_noMod(currentRotation, angle) == currentRotation + angle

NewRotation(currentRotation, angle) == (currentRotation + angle) % 360

InitPdf ==
  /\ ParserIdle
  /\ FitIdle
  /\ ConvIdle
  /\ svcPc = "call"
  /\ svcDoc = <<>>
  /\ svcSel = <<>>
  /\ svcSegs = <<>>
  /\ svcIdx = 1
  /\ svcOut = <<>>
  /\ svcErr = "none"
  /\ \/ /\ svcOp = "merge"
        /\ \E n \in 0..MaxFiles :
             svcFiles \in {fs \in [1..n -> UNION {PlainDocs(f) : f \in 1..n}] :
                             \A f \in 1..n : fs[f] \in PlainDocs(f)}
        /\ svcStr = <<>>
        /\ svcMode = "all"
        /\ svcAngle = 90
     \/ /\ svcOp = "extract"
        /\ svcFiles \in {<<d>> : d \in PlainDocs(1)}
        /\ svcStr \in ExprStrings
        /\ svcMode = "all"
        /\ svcAngle = 90
     \/ /\ svcOp = "split"
        /\ svcFiles \in {<<d>> : d \in PlainDocs(1)}
        /\ \/ svcMode = "all" /\ svcStr = <<>>
           \/ svcMode = "ranges" /\ svcStr \in ExprStrings
        /\ svcAngle = 90
     \/ /\ svcOp = "rotate"
        /\ svcFiles \in {<<d>> : d \in RotatedDocs(1)}
        /\ svcStr \in ExprStrings
        /\ svcMode = "all"
        /\ svcAngle \in Angles

svcInputs == <<svcOp, svcFiles, svcStr, svcMode, svcAngle>>

\* ---- mergePdfs ----
MergeCreate ==
  /\ svcOp = "merge" /\ svcPc = "call"
  /\ svcDoc' = <<>>
  /\ svcIdx' = 1
  /\ svcPc' = "merging"
  /\ UNCHANGED <<svcInputs, svcSel, svcSegs, svcOut, svcErr>>
  /\ UNCHANGED <<parserVars, fitVars, convVars>>

MergeFile ==
  /\ svcOp = "merge" /\ svcPc = "merging"
  /\ svcIdx <= Len(svcFiles)
  /\ LET pdfDoc == svcFiles[svcIdx]
     IN  svcDoc' = AddPages(svcDoc, CopyPages(pdfDoc, getPageIndices(pdfDoc)))
  /\ svcIdx' = svcIdx + 1
  /\ UNCHANGED <<svcInputs, svcPc, svcSel, svcSegs, svcOut, svcErr>>
  /\ UNCHANGED <<parserVars, fitVars, convVars>>

MergeSave ==
  /\ svcOp = "merge" /\ svcPc = "merging"
  /\ svcIdx > Len(svcFiles)
  /\ svcOut' = <<svcDoc>>
  /\ svcPc' = "done"
  /\ UNCHANGED <<svcInputs, svcDoc, svcSel, svcSegs, svcIdx, svcErr>>
  /\ UNCHANGED <<parserVars, fitVars, convVars>>

\* ---- extractPagesFromPdf ----
ExtractParse ==
  /\ svcOp = "extract" /\ svcPc = "call"
  /\ LET pdfDoc == svcFiles[1]
         parsed == parsePageRanges(svcStr, getPageCount(pdfDoc))
     IN  IF parsed.error # "none"
         THEN svcPc' = "failed" /\ svcErr' = parsed.error
              /\ UNCHANGED <<svcDoc, svcSel>>
         ELSE IF NoPagesSelected(parsed.pages)
         THEN svcPc' = "failed" /\ svcErr' = "NoPagesSelected"
              /\ UNCHANGED <<svcDoc, svcSel>>
         ELSE svcPc' = "copying" /\ svcSel' = parsed.pages
              /\ svcDoc' = pdfDoc /\ UNCHANGED svcErr
  /\ UNCHANGED <<svcInputs, svcSegs, svcIdx, svcOut>>
  /\ UNCHANGED <<parserVars, fitVars, convVars>>

ExtractCopy ==
  /\ svcOp = "extract" /\ svcPc = "copying"
  /\ svcOut' = <<AddPages(<<>>, CopyPages(svcDoc, svcSel))>>
  /\ svcPc' = "done"
  /\ UNCHANGED <<svcInputs, svcDoc, svcSel, svcSegs, svcIdx, svcErr>>
  /\ UNCHANGED <<parserVars, fitVars, convVars>>

\* ---- rotatePdfPages ----
RotateParse ==
  /\ svcOp = "rotate" /\ svcPc = "call"
  /\ LET pdfDoc == svcFiles[1]
         parsed == parsePageRanges(svcStr, getPageCount(pdfDoc))
     IN  IF parsed.error # "none"
         THEN svcPc' = "failed" /\ svcErr' = parsed.error
              /\ UNCHANGED <<svcDoc, svcSel>>
         ELSE IF NoPagesSelected(parsed.pages)
         THEN svcPc' = "failed" /\ svcErr' = "NoPagesSelected"
              /\ UNCHANGED <<svcDoc, svcSel>>
         ELSE svcPc' = "rotating" /\ svcSel' = parsed.pages
              /\ svcDoc' = pdfDoc /\ UNCHANGED svcErr
  /\ svcIdx' = 1
  /\ UNCHANGED <<svcInputs, svcSegs, svcOut>>
  /\ UNCHANGED <<parserVars, fitVars, convVars>>

RotatePage ==
  /\ svcOp = "rotate" /\ svcPc = "rotating"
  /\ svcIdx <= Len(svcSel)
  /\ LET pageIndex == svcSel[svcIdx]
         currentRotation == svcDoc[pageIndex + 1].rot
     IN  svcDoc' = [svcDoc EXCEPT
                      ![pageIndex + 1].rot =
                         NewRotation(currentRotation, svcAngle)]
  /\ svcIdx' = svcIdx + 1
  /\ UNCHANGED <<svcInputs, svcPc, svcSel, svcSegs, svcOut, svcErr>>
  /\ UNCHANGED <<parserVars, fitVars, convVars>>

RotateSave ==
  /\ svcOp = "rotate" /\ svcPc = "rotating"
  /\ svcIdx > Len(svcSel)
  /\ svcOut' = <<svcDoc>>
  /\ svcPc' = "done"
  /\ UNCHANGED <<svcInputs, svcDoc, svcSel, svcSegs, svcIdx, svcErr>>
  /\ UNCHANGED <<parserVars, fitVars, convVars>>

\* ---- splitPdf ----
\* The choice of the branch: 'all', 'ranges' with a non-empty ranges string
\* (an undefined and an empty rangesStr are both falsy), or the throw.
SplitBegin ==
  /\ svcOp = "split" /\ svcPc = "call"
  /\ svcDoc' = svcFiles[1]
  /\ svcIdx' = 1
  /\ IF svcMode = "all"
     THEN svcPc' = "splitAll" /\ UNCHANGED <<svcSegs, svcErr>>
     ELSE IF svcMode = "ranges" /\ svcStr # <<>>
     THEN LET rangeSegments == RangeSegments(svcStr)
          IN  IF Len(rangeSegments) = 0
              THEN svcPc' = "failed" /\ svcErr' = "NoRanges"
                   /\ UNCHANGED svcSegs
              ELSE svcPc' = "splitRanges" /\ svcSegs' = rangeSegments
                   /\ UNCHANGED svcErr
     ELSE svcPc' = "failed" /\ svcErr' = "InvalidMode"
          /\ UNCHANGED svcSegs
  /\ UNCHANGED <<svcInputs, svcSel, svcOut>>
  /\ UNCHANGED <<parserVars, fitVars, convVars>>

SplitAllPage ==
  /\ svcOp = "split" /\ svcPc = "splitAll"
  /\ svcIdx <= getPageCount(svcDoc)
  /\ svcOut' = Append(svcOut,
                      [doc |-> AddPages(<<>>, CopyPages(svcDoc, <<svcIdx - 1>>)),
                       filename |-> <<"page", svcIdx>>])
  /\ svcIdx' = svcIdx + 1
  /\ UNCHANGED <<svcInputs, svcPc, svcDoc, svcSel, svcSegs, svcErr>>
  /\ UNCHANGED <<parserVars, fitVars, convVars>>

SplitSegment ==
  /\ svcOp = "split" /\ svcPc = "splitRanges"
  /\ svcIdx <= Len(svcSegs)
  /\ LET segment == svcSegs[svcIdx]
         parsed == parsePageRanges(segment, getPageCount(svcDoc))
     IN  IF parsed.error # "none"
         THEN svcPc' = "failed" /\ svcErr' = parsed.error
              /\ UNCHANGED <<svcIdx, svcOut>>
         ELSE IF Len(parsed.pages) = 0
         THEN svcIdx' = svcIdx + 1 /\ UNCHANGED <<svcPc, svcErr, svcOut>>
         ELSE /\ svcOut' = Append(svcOut,
                                  [doc |-> AddPages(<<>>, CopyPages(svcDoc, parsed.pages)),
                                   filename |-> <<"split", Sanitize(segment)>>])
              /\ svcIdx' = svcIdx + 1
              /\ UNCHANGED <<svcPc, svcErr>>
  /\ UNCHANGED <<svcInputs, svcDoc, svcSel, svcSegs>>
  /\ UNCHANGED <<parserVars, fitVars, convVars>>

SplitFinish ==
  /\ svcOp = "split"
  /\ \/ svcPc = "splitAll" /\ svcIdx > getPageCount(svcDoc)
     \/ svcPc = "splitRanges" /\ svcIdx > Len(svcSegs)
  /\ IF NoResults(svcOut)
     THEN svcPc' = "failed" /\ svcErr' = "NoPdfsGenerated"
     ELSE svcPc' = "done" /\ UNCHANGED svcErr
  /\ UNCHANGED <<svcInputs, svcDoc, svcSel, svcSegs, svcIdx, svcOut>>
  /\ UNCHANGED <<parserVars, fitVars, convVars>>

NextPdf ==
  \/ MergeCreate
  \/ MergeFile
  \/ MergeSave
  \/ ExtractParse
  \/ ExtractCopy
  \/ RotateParse
  \/ RotatePage
  \/ RotateSave
  \/ SplitBegin
  \/ SplitAllPage
  \/ SplitSegment
  \/ SplitFinish

SpecPdf == InitPdf /\ [][NextPdf]_vars

\* The step machine and the whole-call form of the parser agree.
ParserAgrees ==
  /\ pc = "returned" =>
       parsePageRanges(rangeStr, maxPage) = [error |-> "none", pages |-> ret]
  /\ pc = "thrown" =>
       parsePageRanges(rangeStr, maxPage) = [error |-> error, pages |-> <<>>]


---------------------------------------------------------------------------
\* C11: extractPagesFromPdf and rotatePdfPages fail with the empty-result
\* error and produce no output document whenever the parse of their page
\* expression yields zero pages; they never copy or rotate an empty page set.
ParseYieldsNoPages ==
  parsePageRanges(svcStr, Len(svcFiles[1])) = [error |-> "none", pages |-> <<>>]

C11_EmptySelectionFails ==
  (svcOp \in {"extract", "rotate"} /\ svcPc # "call") =>
    /\ ParseYieldsNoPages =>
         svcPc = "failed" /\ svcErr = "NoPagesSelected" /\ svcOut = <<>>
    /\ svcPc \in {"copying", "rotating", "done"} => svcSel # <<>>

\* extractPagesFromPdf failed with the empty-result error on a
\* whitespace-only expression for a document that has pages.
C11_Witness ==
  /\ svcOp = "extract"
  /\ svcStr # <<>>
  /\ IsEmptySegment(svcStr)
  /\ Len(svcFiles[1]) >= 1
  /\ svcPc = "failed"
  /\ svcErr = "NoPagesSelected"
  /\ svcOut = <<>>

\* C19: mergePdfs takes its files one at a time in the order supplied: the
\* merged document holds the pages of file 1 in their order, then those of
\* file 2, and so on, its page count is the sum of the inputs' page counts,
\* and while merging it holds exactly the pages of the files done so far.
RECURSIVE PagesInOrder(_, _)
PagesInOrder(files, n) ==
  IF n = 0 THEN <<>>
  ELSE PagesInOrder(files, n - 1) \o
       [p \in 1..Len(files[n]) |-> <<n, p>>]

RECURSIVE PageCountSum(_, _)
PageCountSum(files, n) ==
  IF n = 0 THEN 0 ELSE PageCountSum(files, n - 1) + Len(files[n])

Origin(doc) == [k \in 1..Len(doc) |-> <<doc[k].file, doc[k].num>>]

C19_MergeKeepsFileOrder ==
  svcOp = "merge" =>
    /\ svcPc = "merging" =>
         Origin(svcDoc) = PagesInOrder(svcFiles, svcIdx - 1)
    /\ svcPc = "done" =>
         /\ Len(svcOut) = 1
         /\ Origin(svcOut[1]) = PagesInOrder(svcFiles, Len(svcFiles))
         /\ Len(svcOut[1]) = PageCountSum(svcFiles, Len(svcFiles))

\* Two files of two pages and one page were merged into three pages.
C19_Witness ==
  /\ svcOp = "merge"
  /\ svcPc = "done"
  /\ Len(svcFiles) = 2
  /\ Len(svcFiles[1]) = 2
  /\ Len(svcFiles[2]) = 1
  /\ Origin(svcOut[1]) = << <<1, 1>>, <<1, 2>>, <<2, 1>> >>

\* C20: in splitPdf's 'ranges' mode an invalid segment is skipped: when the
\* ranges string holds at least one valid segment besides an invalid one,
\* splitPdf returns one output file for each valid segment.
SplitSegmentsOf == RangeSegments(svcStr)

ValidSegments ==
  {k \in 1..Len(SplitSegmentsOf) :
     LET parsed == parsePageRanges(SplitSegmentsOf[k], Len(svcFiles[1]))
     IN  parsed.error = "none" /\ parsed.pages # <<>>}

InvalidSplitSegments ==
  {k \in 1..Len(SplitSegmentsOf) :
     parsePageRanges(SplitSegmentsOf[k], Len(svcFiles[1])).error # "none"}

C20_InvalidSegmentSkipped ==
  (/\ svcOp = "split" /\ svcMode = "ranges"
   /\ svcPc \in {"done", "failed"}
   /\ ValidSegments # {} /\ InvalidSplitSegments # {}) =>
    svcPc = "done" /\ Len(svcOut) = Cardinality(ValidSegments)


---------------------------------------------------------------------------
(***************************************************************************)
(* convertImagesToPdf: the page and the draw rectangle of one embedded     *)
(* image.  Lengths are exact rationals <<numerator, denominator>> in       *)
(* lowest terms with a positive denominator; the one quotient that can     *)
(* have a zero divisor, pageAspectRatio, is a JavaScript number with       *)
(* Infinity, -Infinity and NaN.                                            *)
(***************************************************************************)
MaxImageSide == 4
MaxAvailable == 4

margin == 20

Abs(n) == IF n < 0 THEN 0 - n ELSE n

RECURSIVE GCD(_, _)
GCD(a, b) == IF b = 0 THEN a ELSE GCD(b, a % b)

LCM(a, b) == (a \div GCD(a, b)) * b

Frac(n, d) ==
  LET g == GCD(Abs(n), Abs(d))
      sgn == IF d < 0 THEN 0 - 1 ELSE 1
  IN  <<sgn * (n \div g), sgn * (d \div g)>>

Q(n) == <<n, 1>>

QAdd(a, b) ==
  LET l == LCM(a[2], b[2])
  IN  Frac(a[1] * (l \div a[2]) + b[1] * (l \div b[2]), l)

QSub(a, b) ==
  LET l == LCM(a[2], b[2])
  IN  Frac(a[1] * (l \div a[2]) - b[1] * (l \div b[2]), l)

QMul(a, b) ==
  LET u == Frac(a[1], b[2])
      v == Frac(b[1], a[2])
  IN  Frac(u[1] * v[1], u[2] * v[2])

\* a / b for b # 0
QDiv(a, b) == QMul(a, Frac(b[2], b[1]))

QLt(a, b) ==
  LET l == LCM(a[2], b[2])
  IN  a[1] * (l \div a[2]) < b[1] * (l \div b[2])

QLe(a, b) == a = b \/ QLt(a, b)

\* a / b as JavaScript computes it, also for b = 0
JsDiv(a, b) ==
  IF b[1] # 0 THEN [kind |-> "finite", q |-> QDiv(a, b)]
  ELSE IF a[1] > 0 THEN [kind |-> "Infinity", q |-> Q(0)]
  ELSE IF a[1] < 0 THEN [kind |-> "-Infinity", q |-> Q(0)]
  ELSE [kind |-> "NaN", q |-> Q(0)]

\* a > b for a finite a
JsGt(a, b) ==
  CASE b.kind = "finite" -> QLt(b.q, a)
    [] b.kind = "-Infinity" -> TRUE
    [] OTHER -> FALSE

\* PageSizes.A4 and PageSizes.Letter of the PDF library, in points
PageSizeA4 == <<Frac(59528, 100), Frac(84189, 100)>>
PageSizeLetter == <<Q(612), Q(792)>>

ImageSides == (1..MaxImageSide) \cup {100, 200}
CustomSides == ((2 * margin - 1)..(2 * margin + MaxAvailable)) \cup {600, 800}

PageSizeOptions ==
  {[kind |-> k, w |-> 0, h |-> 0] : k \in {"none", "A4", "Letter"}}
    \cup {[kind |-> "custom", w |-> w, h |-> h] :
            w \in CustomSides, h \in CustomSides}

\* lines 135-146: the page size the options give, A4 by default
ResolvePageSize(opt) ==
  CASE opt.kind = "A4" -> PageSizeA4
    [] opt.kind = "Letter" -> PageSizeLetter
    [] opt.kind = "custom" -> <<Q(opt.w), Q(opt.h)>>
    [] OTHER -> PageSizeA4

\* lines 148-152: the orientation swap
OrientPage_alwaysSwap(orientation, w, h) ==
  IF orientation = "landscape" THEN <<h, w>>
  ELSE IF orientation = "portrait" /\ QLt(h, w) THEN <<h, w>>
  ELSE <<w, h>>

OrientPage(orientation, w, h) ==
  IF orientation = "landscape" /\ QLt(w, h) THEN <<h, w>>
  ELSE IF orientation = "portrait" /\ QLt(h, w) THEN <<h, w>>
  ELSE <<w, h>>

\* lines 160-161
Available(pageSide) == QSub(pageSide, QMul(Q(2), Q(margin)))

\* lines 163-173: <<drawWidth, drawHeight>>
FitDraw_stretch(imgW, imgH, availW, availH) == <<availW, availH>>

FitDraw_cover(imgW, imgH, availW, availH) ==
  LET pageAspectRatio == JsDiv(availW, availH)
      imageAspectRatio == QDiv(imgW, imgH)
  IN  IF ~JsGt(imageAspectRatio, pageAspectRatio)
      THEN <<availW, QDiv(availW, imageAspectRatio)>>
      ELSE <<QMul(availH, imageAspectRatio), availH>>

FitDraw_alwaysWidth(imgW, imgH, availW, availH) ==
  <<availW, QDiv(availW, QDiv(imgW, imgH))>>

FitDraw_wrongOp(imgW, imgH, availW, availH) ==
  LET pageAspectRatio == JsDiv(availW, availH)
      imageAspectRatio == QDiv(imgW, imgH)
  IN  IF JsGt(imageAspectRatio, pageAspectRatio)
      THEN <<availW, QDiv(availW, imageAspectRatio)>>
      ELSE <<QDiv(availH, imageAspectRatio), availH>>

FitDraw(imgW, imgH, availW, availH) ==
  LET pageAspectRatio == JsDiv(availW, availH)
      imageAspectRatio == QDiv(imgW, imgH)
  IN  IF JsGt(imageAspectRatio, pageAspectRatio)
      THEN <<availW, QDiv(availW, imageAspectRatio)>>
      ELSE <<QMul(availH, imageAspectRatio), availH>>

\* lines 176-177
CenterOffset_noHalf(avail, draw) == QAdd(Q(margin), QSub(avail, draw))

CenterOffset(avail, draw) ==
  QAdd(Q(margin), QDiv(QSub(avail, draw), Q(2)))

InitFit ==
  /\ ParserIdle
  /\ PdfIdle
  /\ ConvIdle
  /\ imageDims \in ImageSides \X ImageSides
  /\ optPageSize \in PageSizeOptions
  /\ optOrientation \in {"none", "portrait", "landscape"}
  /\ fitPc = "embedded"
  /\ pageWidth = Q(0)
  /\ pageHeight = Q(0)
  /\ availableWidth = Q(0)
  /\ availableHeight = Q(0)
  /\ drawWidth = Q(0)
  /\ drawHeight = Q(0)
  /\ drawX = Q(0)
  /\ drawY = Q(0)

fitInputs == <<imageDims, optPageSize, optOrientation>>

\* lines 135-146
ChoosePageSize ==
  /\ fitPc = "embedded"
  /\ pageWidth' = ResolvePageSize(optPageSize)[1]
  /\ pageHeight' = ResolvePageSize(optPageSize)[2]
  /\ fitPc' = "sized"
  /\ UNCHANGED <<fitInputs, availableWidth, availableHeight, drawWidth,
                 drawHeight, drawX, drawY>>
  /\ UNCHANGED <<parserVars, pdfVars, convVars>>

\* lines 148-155: the orientation swap, then the page is added
OrientAndAddPage ==
  /\ fitPc = "sized"
  /\ pageWidth' = OrientPage(optOrientation, pageWidth, pageHeight)[1]
  /\ pageHeight' = OrientPage(optOrientation, pageWidth, pageHeight)[2]
  /\ fitPc' = "paged"
  /\ UNCHANGED <<fitInputs, availableWidth, availableHeight, drawWidth,
                 drawHeight, drawX, drawY>>
  /\ UNCHANGED <<parserVars, pdfVars, convVars>>

\* lines 159-173
ScaleToFit ==
  /\ fitPc = "paged"
  /\ availableWidth' = Available(pageWidth)
  /\ availableHeight' = Available(pageHeight)
  /\ LET draw == FitDraw(Q(imageDims[1]), Q(imageDims[2]),
                         Available(pageWidth), Available(pageHeight))
     IN  drawWidth' = draw[1] /\ drawHeight' = draw[2]
  /\ fitPc' = "fitted"
  /\ UNCHANGED <<fitInputs, pageWidth, pageHeight, drawX, drawY>>
  /\ UNCHANGED <<parserVars, pdfVars, convVars>>

\* lines 176-177
CenterImage ==
  /\ fitPc = "fitted"
  /\ drawX' = CenterOffset(availableWidth, drawWidth)
  /\ drawY' = CenterOffset(availableHeight, drawHeight)
  /\ fitPc' = "centered"
  /\ UNCHANGED <<fitInputs, pageWidth, pageHeight, availableWidth,
                 availableHeight, drawWidth, drawHeight>>
  /\ UNCHANGED <<parserVars, pdfVars, convVars>>

\* lines 179-184
DrawImage ==
  /\ fitPc = "centered"
  /\ fitPc' = "drawn"
  /\ UNCHANGED <<fitInputs, pageWidth, pageHeight, availableWidth,
                 availableHeight, drawWidth, drawHeight, drawX, drawY>>
  /\ UNCHANGED <<parserVars, pdfVars, convVars>>

NextFit ==
  \/ ChoosePageSize
  \/ OrientAndAddPage
  \/ ScaleToFit
  \/ CenterImage
  \/ DrawImage

SpecFit == InitFit /\ [][NextFit]_vars

---------------------------------------------------------------------------
(***************************************************************************)
(* The placement claims, stated from the page, the margin and the image.   *)
(***************************************************************************)
imageWidth == Q(imageDims[1])
imageHeight == Q(imageDims[2])

\* The margin-inset area of the page.
AreaWidth == QSub(pageWidth, Q(2 * margin))
AreaHeight == QSub(pageHeight, Q(2 * margin))

PositiveArea == QLt(Q(0), AreaWidth) /\ QLt(Q(0), AreaHeight)

\* imageWidth/imageHeight > AreaWidth/AreaHeight, for positive lengths
ImageWiderThanArea ==
  QLt(QMul(AreaWidth, imageHeight), QMul(imageWidth, AreaHeight))

SameAspectAsArea ==
  QMul(AreaWidth, imageHeight) = QMul(imageWidth, AreaHeight)

Scaled == fitPc \in {"fitted", "centered", "drawn"}
Placed == fitPc \in {"centered", "drawn"}

\* C12: the draw rectangle keeps the image's aspect ratio exactly:
\* drawWidth * imageHeight = drawHeight * imageWidth, for all positive image
\* and available-area dimensions.
C12_AspectRatioPreserved ==
  (Scaled /\ PositiveArea) =>
    QMul(drawWidth, imageHeight) = QMul(drawHeight, imageWidth)

\* A 3 x 4 image was drawn on a Letter page, scaled to a size that is
\* neither the image's nor the area's.
C12_Witness ==
  /\ fitPc = "drawn"
  /\ optPageSize.kind = "Letter"
  /\ imageDims = <<3, 4>>
  /\ drawWidth # imageWidth
  /\ drawWidth # AreaWidth

\* C13: with a positive available area the draw rectangle lies inside the
\* margin-inset area: margin <= x, x + drawWidth <= pageWidth - margin,
\* margin <= y and y + drawHeight <= pageHeight - margin.
C13_InsideMargins ==
  (Placed /\ PositiveArea) =>
    /\ QLe(Q(margin), drawX)
    /\ QLe(QAdd(drawX, drawWidth), QSub(pageWidth, Q(margin)))
    /\ QLe(Q(margin), drawY)
    /\ QLe(QAdd(drawY, drawHeight), QSub(pageHeight, Q(margin)))

\* A tall image was drawn on a landscape A4 page, with slack left and right.
C13_Witness ==
  /\ fitPc = "drawn"
  /\ optPageSize.kind = "A4"
  /\ optOrientation = "landscape"
  /\ imageDims = <<1, 4>>
  /\ QLt(Q(margin), drawX)

\* C14: the rectangle is centered in the available area on both axes:
\* x - margin = pageWidth - margin - (x + drawWidth), and likewise for y.
C14_Centered ==
  Placed =>
    /\ QSub(drawX, Q(margin)) =
         QSub(QSub(pageWidth, Q(margin)), QAdd(drawX, drawWidth))
    /\ QSub(drawY, Q(margin)) =
         QSub(QSub(pageHeight, Q(margin)), QAdd(drawY, drawHeight))

\* A wide image was drawn on a page with slack below and above it.
C14_Witness ==
  /\ fitPc = "drawn"
  /\ PositiveArea
  /\ imageDims = <<4, 1>>
  /\ QLt(Q(margin), drawY)
  /\ drawX = Q(margin)

\* C15: the fit is a 'contain' fit chosen by aspect comparison: when
\* imageWidth/imageHeight > availableWidth/availableHeight the draw width is
\* the full available width, otherwise the draw height is the full available
\* height; so one draw dimension always equals its available dimension.
C15_ContainFit ==
  (Scaled /\ PositiveArea) =>
    /\ IF ImageWiderThanArea THEN drawWidth = AreaWidth
       ELSE drawHeight = AreaHeight
    /\ (drawWidth = AreaWidth \/ drawHeight = AreaHeight)

\* Image 200 x 100 on a 600 x 800 page: width 560, height 280, x 20, y 260.
C15_Witness ==
  /\ fitPc = "drawn"
  /\ imageDims = <<200, 100>>
  /\ optPageSize = [kind |-> "custom", w |-> 600, h |-> 800]
  /\ optOrientation = "none"
  /\ drawWidth = Q(560)
  /\ drawHeight = Q(280)
  /\ drawX = Q(20)
  /\ drawY = Q(260)

\* C16: an image whose aspect ratio equals the available area's exactly
\* fills the area: drawWidth = availableWidth, drawHeight = availableHeight,
\* x = margin and y = margin.
C16_EqualAspectFills ==
  (Placed /\ PositiveArea /\ SameAspectAsArea) =>
    /\ drawWidth = AreaWidth
    /\ drawHeight = AreaHeight
    /\ drawX = Q(margin)
    /\ drawY = Q(margin)

\* A 3 x 4 image was drawn on a page whose available area is 3 x 4.
C16_Witness ==
  /\ fitPc = "drawn"
  /\ imageDims = <<3, 4>>
  /\ optPageSize = [kind |-> "custom", w |-> 43, h |-> 44]
  /\ optOrientation = "none"
  /\ SameAspectAsArea

\* C17: the fit fails with MarginTooLarge whenever the margin leaves no
\* available area (pageWidth - 2*margin <= 0 or pageHeight - 2*margin <= 0);
\* an image is never drawn with a zero or negative width or height.
C17_NoAreaNeverDrawn ==
  fitPc = "drawn" =>
    /\ PositiveArea
    /\ QLt(Q(0), drawWidth)
    /\ QLt(Q(0), drawHeight)

\* C18: the page's width and height are swapped exactly when the requested
\* orientation disagrees with the page size's natural orientation; afterwards
\* 'landscape' implies pageWidth >= pageHeight and 'portrait' implies
\* pageWidth <= pageHeight, and without a requested orientation the page
\* size is the one the options gave.
GivenSize == ResolvePageSize(optPageSize)

Disagrees ==
  \/ optOrientation = "landscape" /\ QLt(GivenSize[1], GivenSize[2])
  \/ optOrientation = "portrait" /\ QLt(GivenSize[2], GivenSize[1])

C18_OrientationSwap ==
  fitPc \in {"paged", "fitted", "centered", "drawn"} =>
    /\ <<pageWidth, pageHeight>> =
         IF Disagrees THEN <<GivenSize[2], GivenSize[1]>> ELSE GivenSize
    /\ optOrientation = "landscape" => QLe(pageHeight, pageWidth)
    /\ optOrientation = "portrait" => QLe(pageWidth, pageHeight)
    /\ optOrientation = "none" => <<pageWidth, pageHeight>> = GivenSize

\* A landscape page was made of the A4 size, which is a portrait one.
C18_Witness ==
  /\ fitPc = "paged"
  /\ optPageSize.kind = "A4"
  /\ optOrientation = "landscape"
  /\ pageWidth = PageSizeA4[2]
  /\ pageHeight = PageSizeA4[1]


---------------------------------------------------------------------------
\* C21: after rotatePdfPages succeeds, the rotation of every selected page is
\* (its previous rotation + angle) mod 360, applied exactly once per page even
\* when several segments name the same page, the rotation of every unselected
\* page is unchanged, and for previous rotations in {0, 90, 180, 270} the new
\* rotation is again in {0, 90, 180, 270}.  While the loop runs, exactly the
\* pages it has visited so far are rotated, once each.
SelectedPages ==
  ToSet(parsePageRanges(svcStr, Len(svcFiles[1])).pages)

RotatedOnce(before, after, indices) ==
  /\ Len(after) = Len(before)
  /\ \A p \in 1..Len(before) :
       /\ after[p].file = before[p].file
       /\ after[p].num = before[p].num
       /\ after[p].rot = IF (p - 1) \in indices
                         THEN (before[p].rot + svcAngle) % 360
                         ELSE before[p].rot
       /\ after[p].rot \in Rotations

C21_RotatesSelectedOnce ==
  svcOp = "rotate" =>
    /\ svcPc = "rotating" =>
         RotatedOnce(svcFiles[1], svcDoc,
                     {svcSel[k] : k \in 1..(svcIdx - 1)})
    /\ svcPc = "done" =>
         /\ Len(svcOut) = 1
         /\ RotatedOnce(svcFiles[1], svcOut[1], SelectedPages)

\* "1,1" names page 1 twice: its rotation went from 270 to 0 by one turn of
\* 90, and page 2 kept its rotation of 180.
C21_Witness ==
  /\ svcOp = "rotate"
  /\ svcPc = "done"
  /\ svcStr = <<"1", ",", "1">>
  /\ svcAngle = 90
  /\ Len(svcFiles[1]) = 2
  /\ svcFiles[1][1].rot = 270
  /\ svcFiles[1][2].rot = 180
  /\ svcOut[1][1].rot = 0
  /\ svcOut[1][2].rot = 180

---------------------------------------------------------------------------
\* C24: splitPdf never returns an empty list.  In 'all' mode on a document
\* of N >= 1 pages it returns exactly N single-page outputs, the i-th holding
\* page i and named <base>_page_<i>.pdf; in 'ranges' mode it returns one
\* output per segment in the order written; and when no output would be
\* generated (zero-page document, no segments, or mode 'ranges' without a
\* ranges string) it fails with an error instead.
SplitEnded == svcOp = "split" /\ svcPc \in {"done", "failed"}

NothingToGenerate ==
  \/ Len(svcFiles[1]) = 0
  \/ svcMode = "ranges" /\ svcStr = <<>>
  \/ svcMode = "ranges" /\ SplitSegmentsOf = <<>>

C24_SplitNeverEmpty ==
  SplitEnded =>
    /\ svcPc = "done" => Len(svcOut) >= 1
    /\ svcPc = "failed" => svcErr # "none"
    /\ (svcPc = "done" /\ svcMode = "all") =>
         /\ Len(svcOut) = Len(svcFiles[1])
         /\ \A i \in 1..Len(svcOut) :
              /\ svcOut[i].doc = <<svcFiles[1][i]>>
              /\ svcOut[i].filename = <<"page", i>>
    /\ (svcPc = "done" /\ svcMode = "ranges") =>
         /\ Len(svcOut) = Len(SplitSegmentsOf)
         /\ \A k \in 1..Len(svcOut) :
              /\ svcOut[k].filename = <<"split", Sanitize(SplitSegmentsOf[k])>>
              /\ Len(svcOut[k].doc) >= 1
              /\ svcOut[k].doc =
                   CopyPages(svcFiles[1],
                             parsePageRanges(SplitSegmentsOf[k],
                                             Len(svcFiles[1])).pages)
    /\ NothingToGenerate => svcPc = "failed" /\ svcOut = <<>>

\* A two-page document was split in 'all' mode into page 1 and page 2.
C24_Witness ==
  /\ svcOp = "split"
  /\ svcMode = "all"
  /\ svcPc = "done"
  /\ Len(svcFiles[1]) = 2
  /\ Len(svcOut) = 2
  /\ svcOut[1].filename = <<"page", 1>>
  /\ svcOut[2].filename = <<"page", 2>>
  /\ svcOut[2].doc = <<svcFiles[1][2]>>

---------------------------------------------------------------------------
(***************************************************************************)
(* convertImagesToPdf as a whole, and the click handler that awaits it     *)
(* (handleImagesToPdf).  A file is its MIME type and what its bytes do to  *)
(* the step that reads them: "ok", or the step that fails on them.  A page *)
(* of the new document records the file it shows; where the image is drawn *)
(* on the page is the subject of the placement steps above.                *)
(***************************************************************************)
MaxImages == 2

MimeTypes ==
  {"image/jpeg", "image/jpg", "image/png", "IMAGE/PNG", "image/webp",
   "image/gif"}

\* imageFile.type.toLowerCase()
toLowerCase(type) == IF type = "IMAGE/PNG" THEN "image/png" ELSE type

\* The branch of the type dispatch a file takes.
EmbedKind_othersAsPng(fileType) ==
  IF fileType = "image/jpeg" \/ fileType = "image/jpg" THEN "jpg"
  ELSE IF fileType = "image/webp" THEN "webp"
  ELSE "png"

EmbedKind(fileType) ==
  IF fileType = "image/jpeg" \/ fileType = "image/jpg" THEN "jpg"
  ELSE IF fileType = "image/png" THEN "png"
  ELSE IF fileType = "image/webp" THEN "webp"
  ELSE "unsupported"

\* What can go wrong with a file's bytes: embedJpg / embedPng throws; the
\* img element fires onerror; toBlob hands null to its callback; embedPng
\* throws on the PNG bytes of the canvas.
BytesOf(type) ==
  LET kind == EmbedKind(toLowerCase(type))
  IN  IF kind = "webp" THEN {"ok", "loadFails", "blobNull", "embedFails"}
      ELSE IF kind \in {"jpg", "png"} THEN {"ok", "embedFails"}
      ELSE {"ok"}

ImageFileValues ==
  UNION {{[type |-> t, bytes |-> b] : b \in BytesOf(t)} : t \in MimeTypes}

InitConv ==
  /\ ParserIdle
  /\ PdfIdle
  /\ FitIdle
  /\ imageFiles \in UNION {[1..n -> ImageFileValues] : n \in 0..MaxImages}
  /\ viaHandler \in BOOLEAN
  /\ convPc = IF viaHandler THEN "idle" ELSE "call"
  /\ hPc = IF viaHandler THEN "click" ELSE "idle"
  /\ convIdx = 1
  /\ pdfImage = "unset"
  /\ convDoc = <<>>
  /\ convOut = <<>>
  /\ convErr = "none"
  /\ isProcessing = FALSE
  /\ uiError \in IF viaHandler THEN {"none", "EarlierError"} ELSE {"none"}
  /\ processedFilesInfo = <<>>

convInputs == <<imageFiles, viaHandler>>
handlerVars == <<hPc, isProcessing, uiError, processedFilesInfo>>


\* ---- handleImagesToPdf: the guard, and the start of the call ----
HandleImagesToPdf ==
  /\ viaHandler /\ hPc = "click"
  /\ IF Len(imageFiles) = 0
     THEN /\ uiError' = "PleaseUploadImage"
          /\ hPc' = "returned"
          /\ UNCHANGED <<isProcessing, processedFilesInfo, convPc>>
     ELSE /\ isProcessing' = TRUE
          /\ uiError' = "none"
          /\ processedFilesInfo' = <<>>
          /\ hPc' = "awaiting"
          /\ convPc' = "call"
  /\ UNCHANGED <<convInputs, convIdx, pdfImage, convDoc, convOut, convErr>>
  /\ UNCHANGED <<parserVars, pdfVars, fitVars>>

\* ---- convertImagesToPdf ----
\* if (imageFiles.length === 0) throw; pdfDoc = await PDFDocument.create()
ConvEntry ==
  /\ convPc = "call"
  /\ IF Len(imageFiles) = 0
     THEN convPc' = "threw" /\ convErr' = "NoImageFiles"
     ELSE convPc' = "loop" /\ UNCHANGED convErr
  /\ convDoc' = <<>>
  /\ convIdx' = 1
  /\ UNCHANGED <<convInputs, pdfImage, convOut, handlerVars>>
  /\ UNCHANGED <<parserVars, pdfVars, fitVars>>

\* One file of the for-of loop up to its embedding: a JPEG or PNG is
\* embedded (or the embedding throws out of the call), a WebP starts its
\* conversion, any other type is skipped.
ConvNextFile ==
  /\ convPc = "loop"
  /\ convIdx <= Len(imageFiles)
  /\ LET imageFile == imageFiles[convIdx]
         fileType == toLowerCase(imageFile.type)
         kind == EmbedKind(fileType)
     IN  IF kind \in {"jpg", "png"}
         THEN IF imageFile.bytes = "ok"
              THEN /\ pdfImage' = kind
                   /\ convPc' = "embedded"
                   /\ UNCHANGED <<convIdx, convErr>>
              ELSE /\ convPc' = "threw"
                   /\ convErr' = "EmbedFailed"
                   /\ pdfImage' = "unset"
                   /\ UNCHANGED convIdx
         ELSE IF kind = "webp"
         THEN /\ pdfImage' = "unset"
              /\ convPc' = "webpLoading"
              /\ UNCHANGED <<convIdx, convErr>>
         ELSE /\ pdfImage' = "unset"
              /\ convIdx' = convIdx + 1
              /\ UNCHANGED <<convPc, convErr>>
  /\ UNCHANGED <<convInputs, convDoc, convOut, handlerVars>>
  /\ UNCHANGED <<parserVars, pdfVars, fitVars>>

\* The img element answers: onerror rejects the promise, the catch skips the
\* file; onload draws on the canvas and calls canvas.toBlob.
WebpImageLoaded ==
  /\ convPc = "webpLoading"
  /\ IF imageFiles[convIdx].bytes = "loadFails"
     THEN convPc' = "loop" /\ convIdx' = convIdx + 1
     ELSE convPc' = "webpToBlob" /\ UNCHANGED convIdx
  /\ UNCHANGED <<convInputs, pdfImage, convDoc, convOut, convErr, handlerVars>>
  /\ UNCHANGED <<parserVars, pdfVars, fitVars>>

\* The async toBlob callback: a null blob rejects the promise and the catch
\* skips the file; otherwise embedPng runs and resolve() follows it.  When
\* embedPng throws, the callback's own promise rejects, neither resolve nor
\* reject is called, and the awaited promise stays pending.
WebpBlobCallback ==
  /\ convPc = "webpToBlob"
  /\ LET bytes == imageFiles[convIdx].bytes
     IN  IF bytes = "blobNull"
         THEN convPc' = "loop" /\ convIdx' = convIdx + 1 /\ UNCHANGED pdfImage
         ELSE IF bytes = "embedFails"
         THEN convPc' = "webpPending" /\ UNCHANGED <<convIdx, pdfImage>>
         ELSE convPc' = "embedded" /\ pdfImage' = "png" /\ UNCHANGED convIdx
  /\ UNCHANGED <<convInputs, convDoc, convOut, convErr, handlerVars>>
  /\ UNCHANGED <<parserVars, pdfVars, fitVars>>

\* if (!pdfImage) continue; ... pdfDoc.addPage(...); page.drawImage(...)
ConvAddPage ==
  /\ convPc = "embedded"
  /\ IF pdfImage = "unset"
     THEN UNCHANGED convDoc
     ELSE convDoc' = Append(convDoc, [file |-> convIdx, image |-> pdfImage])
  /\ convIdx' = convIdx + 1
  /\ convPc' = "loop"
  /\ UNCHANGED <<convInputs, pdfImage, convOut, convErr, handlerVars>>
  /\ UNCHANGED <<parserVars, pdfVars, fitVars>>

\* if (pdfDoc.getPageCount() === 0) throw; return pdfDoc.save()
ConvFinish ==
  /\ convPc = "loop"
  /\ convIdx > Len(imageFiles)
  /\ IF getPageCount(convDoc) = 0
     THEN convPc' = "threw" /\ convErr' = "NoImagesConverted"
          /\ UNCHANGED convOut
     ELSE convPc' = "returned" /\ convOut' = <<convDoc>>
          /\ UNCHANGED convErr
  /\ UNCHANGED <<convInputs, convIdx, pdfImage, convDoc, handlerVars>>
  /\ UNCHANGED <<parserVars, pdfVars, fitVars>>

\* ---- handleImagesToPdf: after the await ----
\* try { setProcessedFilesInfo } catch { setError } finally
\* { setIsProcessing(false) }
HandlerSettle ==
  /\ viaHandler /\ hPc = "awaiting"
  /\ convPc \in {"returned", "threw"}
  /\ IF convPc = "returned"
     THEN /\ processedFilesInfo' =
               <<[name |-> "images_converted.pdf", doc |-> convOut[1]]>>
          /\ UNCHANGED uiError
     ELSE /\ uiError' = convErr
          /\ UNCHANGED processedFilesInfo
  /\ isProcessing' = FALSE
  /\ hPc' = "returned"
  /\ UNCHANGED <<convInputs, convPc, convIdx, pdfImage, convDoc, convOut,
                 convErr>>
  /\ UNCHANGED <<parserVars, pdfVars, fitVars>>

NextConv ==
  \/ HandleImagesToPdf
  \/ ConvEntry
  \/ ConvNextFile
  \/ WebpImageLoaded
  \/ WebpBlobCallback
  \/ ConvAddPage
  \/ ConvFinish
  \/ HandlerSettle

SpecConv == InitConv /\ [][NextConv]_vars

\* The event loop runs every continuation and callback that is ready.
SpecConvLive == SpecConv /\ WF_vars(NextConv)

---------------------------------------------------------------------------
\* C22: every started operation (a handler that set isProcessing to true)
\* eventually ends with isProcessing false and either an error or a result
\* set; convertImagesToPdf always returns or throws, and a WebP image whose
\* conversion fails at any step (image load, toBlob, PNG embedding) is
\* skipped instead of leaving the conversion pending forever.
ConvEnded == convPc \in {"returned", "threw"}

HandlerEnded ==
  /\ ~isProcessing
  /\ uiError # "none" \/ processedFilesInfo # <<>>

C22_EveryOperationEnds ==
  /\ isProcessing ~> HandlerEnded
  /\ (convPc = "call") ~> ConvEnded

\* C23: convertImagesToPdf produces exactly one page per successfully
\* embedded image (JPEG, PNG, converted WebP), in the order the files were
\* supplied; files of any other type are skipped without a page; and the
\* call fails with an error, returning no document, when the input list is
\* empty or when every file was skipped.
Supported(f) ==
  toLowerCase(f.type) \in
    {"image/jpeg", "image/jpg", "image/png", "image/webp"}

Embeddable(f) == Supported(f) /\ f.bytes = "ok"

IsSkipped(f) ==
  \/ ~Supported(f)
  \/ toLowerCase(f.type) = "image/webp" /\ f.bytes \in {"loadFails", "blobNull"}

\* The indices up to n of the files that embed, in ascending order.
RECURSIVE EmbeddedUpTo(_)
EmbeddedUpTo(n) ==
  IF n = 0 THEN <<>>
  ELSE IF Embeddable(imageFiles[n]) THEN Append(EmbeddedUpTo(n - 1), n)
  ELSE EmbeddedUpTo(n - 1)

PageFiles(doc) == [k \in 1..Len(doc) |-> doc[k].file]

EveryFileSkipped ==
  Len(imageFiles) >= 1 /\ \A k \in 1..Len(imageFiles) : IsSkipped(imageFiles[k])

C23_OnePagePerEmbeddedImage ==
  /\ convPc = "loop" => PageFiles(convDoc) = EmbeddedUpTo(convIdx - 1)
  /\ convPc = "returned" =>
       /\ Len(convOut) = 1
       /\ PageFiles(convOut[1]) = EmbeddedUpTo(Len(imageFiles))
       /\ Len(convOut[1]) >= 1
       /\ \A k \in 1..Len(imageFiles) :
            Embeddable(imageFiles[k]) \/ IsSkipped(imageFiles[k])
  /\ convPc = "threw" => convOut = <<>> /\ convErr # "none"
  /\ (convPc \notin {"idle", "call"} /\ Len(imageFiles) = 0) =>
       convPc = "threw" /\ convErr = "NoImageFiles"
  /\ (ConvEnded /\ EveryFileSkipped) =>
       convPc = "threw" /\ convErr = "NoImagesConverted"

\* The document returned for a PNG followed by a GIF holds one page, the
\* PNG's.
C23_Witness ==
  /\ convPc = "returned"
  /\ Len(imageFiles) = 2
  /\ toLowerCase(imageFiles[1].type) = "image/png"
  /\ imageFiles[2].type = "image/gif"
  /\ PageFiles(convOut[1]) = <<1>>

=============================================================================
